---- MODULE Spec2Model ----
(***************************************************************************)
(* Model of ifc_import.py (FreeCAD NativeIFC): the document opener `open`, *)
(* the import orchestrator `insert`, the option resolver `get_options` and *)
(* the project-type query `get_project_type`, together with the parameter  *)
(* group they read and write, the modal dialogs, the collaborator calls    *)
(* they make and the process-wide FreeCAD.IsOpeningIFC attribute.          *)
(*                                                                         *)
(* The interpreter is single-threaded: one top-level call runs at a time.  *)
(* `top` is the function the host called, `pc` the line the call chain is  *)
(* at.  A collaborator that raises unwinds the whole chain in one step,    *)
(* since no frame of this file has an exception handler.                   *)
(***************************************************************************)
EXTENDS Integers, Sequences, FiniteSets, TLC

VARIABLES
    params,        \* the parameter group: a function from the keys that are set to their values
    GuiUp,         \* FreeCAD.GuiUp
    IsOpeningIFC,  \* TRUE iff the attribute FreeCAD.IsOpeningIFC exists (its value is always True)
    docs,          \* the labels of the documents created by open, oldest first
    top,           \* the function the host called: "none" | "open" | "insert" | "get_options" | "get_project_type"
    pc,            \* position of the call chain
    given,         \* the arguments of the top-level call, as passed
    strategy,      \* local `strategy` of the running insert / get_options frame
    shapemode,     \* local `shapemode`
    switchwb,      \* local `switchwb`
    singledoc,     \* local `singledoc` of insert
    dlg,           \* the widgets of the dialog of the running call, and the one the user changed
    calls,         \* the collaborator calls and console lines of the running top-level call, in order
    result,        \* how the last top-level call ended and what it returned
    params0,       \* history: the parameter group when the running top-level call started
    flag0,         \* history: IsOpeningIFC when the running top-level call started
    dlgState,      \* history: "none" | "shown" | "accepted" | "cancelled" for the running call
    askOff,        \* history: a dialog acceptance has stored AskAgain = False
    ndialogs       \* number of dialogs shown so far

vars == << params, GuiUp, IsOpeningIFC, docs, top, pc, given, strategy, shapemode,
           switchwb, singledoc, dlg, calls, result, params0, flag0, dlgState, askOff,
           ndialogs >>

-----------------------------------------------------------------------------
(* Bounds of the exploration *)

\* dialogs shown before the host stops issuing calls
MaxDialogs == 2
\* documents created by open
MaxDocs == 1

-----------------------------------------------------------------------------
(* Python values *)

\* Python None and a present value; `x is None` is x = None
None == << >>
Some(v) == << v >>
ValueOf(x) == x[1]

\* the number of entries of comboStrategy / the strategies of the docstring
NumStrategies == 3
\* the number of entries of comboShapeMode / the shape modes of the docstring
NumShapeModes == 3

\* int(b) of a bool
BoolToInt(b) == IF b THEN 1 ELSE 0
\* bool(i) of an int
IntToBool(i) == i # 0

-----------------------------------------------------------------------------
(* The parameter group *)

\* params.GetBool(key, default) and params.GetInt(key, default)
GetParam(p, key, default) == IF key \in DOMAIN p THEN p[key] ELSE default

\* params.SetBool(key, value) and params.SetInt(key, value)
SetParam(p, key, value) ==
    [k \in (DOMAIN p) \cup {key} |-> IF k = key THEN value ELSE p[k]]

\* a parameter group nothing was ever written to
FreshParams == [k \in {} |-> 0]

\* a parameter group a previous session has written, every value off its default
SavedParams ==
    [k \in {"ImportStrategy", "ShapeMode", "SwitchWB", "AskAgain", "LoadOrphans",
            "LoadPsets", "LoadMaterials", "LoadLayers", "SingleDoc"} |->
        CASE k = "ImportStrategy" -> 1
          [] k = "ShapeMode" -> 2
          [] k = "SwitchWB" -> FALSE
          [] k = "AskAgain" -> TRUE
          [] OTHER -> TRUE]

\* the parameter groups a run may start from
InitParams == {FreshParams, SavedParams}

-----------------------------------------------------------------------------
(* os.path *)

\* str.rfind, 1-based: the last position of c in p, 0 when absent
RFind(p, c) ==
    LET hits == {i \in 1..Len(p) : p[i] = c}
    IN IF hits = {} THEN 0 ELSE CHOOSE i \in hits : \A j \in hits : j <= i

\* os.path.basename
basename(p) == SubSeq(p, RFind(p, "/") + 1, Len(p))

SplitextRootFirstDot(p) ==
    LET hits == {i \in 1..Len(p) : p[i] = "."}
    IN IF hits = {} THEN p
       ELSE SubSeq(p, 1, (CHOOSE i \in hits : \A j \in hits : i <= j) - 1)

\* os.path.splitext(p)[0]: cut at the last dot after the last separator,
\* unless only dots stand between the separator and that dot
splitext_root(p) ==
    LET sepIndex == RFind(p, "/")
        dotIndex == RFind(p, ".")
    IN IF dotIndex > sepIndex
          /\ \E k \in (sepIndex + 1)..(dotIndex - 1) : p[k] # "."
       THEN SubSeq(p, 1, dotIndex - 1)
       ELSE p

\* the file names open is called with
Filenames ==
    { << "/", "p", "a", "t", "h", "/", "t", "o", "/", "M", "o", "d", "e", "l", ".", "i", "f", "c" >>,
      << "v", ".", "2", "/", "a", ".", "b", ".", "i", "f", "c" >>,
      << "/", "t", "m", "p", "/", ".", "i", "f", "c" >> }

-----------------------------------------------------------------------------
(* Arguments *)

\* the overrides a caller passes: None or a value
StrategyArgs == {None, Some(2)}
ShapeModeArgs == {None, Some(1)}
SwitchWBArgs == {None, Some(FALSE)}
SingleDocArgs == {None, Some(TRUE), Some(FALSE)}
\* insert hands its overrides on to get_options (line 65): it is called with
\* none or with all three, get_options itself with every combination
InsertOverrides == { << None, None, None >>, << Some(2), Some(1), Some(FALSE) >> }

\* the argument record of a top-level call; the defaults of the signatures
DefaultArgs ==
    [strategy |-> None, shapemode |-> None, switchwb |-> None, silent |-> FALSE,
     singledoc |-> None, filename |-> << >>, docname |-> 0]

-----------------------------------------------------------------------------
(* get_options *)

\* lines 127-132: an override that is None is replaced by the stored value
ResolveIgnoringOverride(override, p, key, default) == Some(GetParam(p, key, default))

Resolve(override, p, key, default) ==
    IF override = None THEN Some(GetParam(p, key, default)) ELSE override

\* lines 135-136: the dialog is shown iff AskAgain is on and a GUI is up
ShouldAskIgnoringAskAgain(p, gui) == gui

ShouldAsk(p, gui) == GetParam(p, "AskAgain", TRUE) /\ gui

\* line 152: the combo index shown for a SingleDoc preference
SingleDocIndex(b) == 1 - BoolToInt(b)

\* line 173: the SingleDoc preference stored for a combo index
SingleDocFromIndexUnflipped(i) == IntToBool(i)

SingleDocFromIndex(i) == IntToBool(1 - i)

\* the widgets of a dialog that was never loaded
NoDialog ==
    [comboStrategy |-> 0, comboShapeMode |-> 0, checkSwitchWB |-> FALSE,
     checkAskAgain |-> FALSE, checkLoadOrphans |-> FALSE, checkLoadPsets |-> FALSE,
     checkLoadMaterials |-> FALSE, checkLoadLayers |-> FALSE, comboSingleDoc |-> 0,
     checkBox |-> FALSE, touched |-> ""]

\* lines 144-152: the widgets as get_options populates them
PopulatedDialog(p, s, m, w) ==
    [NoDialog EXCEPT
        !.comboStrategy = ValueOf(s),
        !.comboShapeMode = ValueOf(m),
        !.checkSwitchWB = ValueOf(w),
        !.checkAskAgain = GetParam(p, "AskAgain", TRUE),
        !.checkLoadOrphans = GetParam(p, "LoadOrphans", FALSE),
        !.checkLoadPsets = GetParam(p, "LoadPsets", FALSE),
        !.checkLoadMaterials = GetParam(p, "LoadMaterials", FALSE),
        !.checkLoadLayers = GetParam(p, "LoadLayers", FALSE),
        !.comboSingleDoc = SingleDocIndex(GetParam(p, "SingleDoc", FALSE))]

\* lines 165-173: the nine writes of an accepted dialog
StoreDialog(p, d) ==
    LET p1 == SetParam(p, "ImportStrategy", d.comboStrategy)
        p2 == SetParam(p1, "ShapeMode", d.comboShapeMode)
        p3 == SetParam(p2, "SwitchWB", d.checkSwitchWB)
        p4 == SetParam(p3, "AskAgain", d.checkAskAgain)
        p5 == SetParam(p4, "LoadOrphans", d.checkLoadOrphans)
        p6 == SetParam(p5, "LoadPsets", d.checkLoadPsets)
        p7 == SetParam(p6, "LoadMaterials", d.checkLoadMaterials)
        p8 == SetParam(p7, "LoadLayers", d.checkLoadLayers)
    IN SetParam(p8, "SingleDoc", SingleDocFromIndex(d.comboSingleDoc))

\* lines 154-155: a rejected dialog returns before any write
ParamsAfterRejectStoring(p, d) == StoreDialog(p, d)

ParamsAfterReject(p, d) == p

\* line 155: what a rejected dialog returns
RejectedTripleKeepingValues(s, m, w) == << s, m, w >>

RejectedTriple(s, m, w) == << None, None, None >>

\* lines 156-158, 174: what an accepted dialog returns
AcceptedTriple(d) ==
    << Some(d.comboStrategy), Some(d.comboShapeMode), Some(d.checkSwitchWB) >>

-----------------------------------------------------------------------------
(* insert *)

\* lines 71-72: single-document mode is the argument, else the preference
SingleDocModePreferenceOnly(sd, p) == GetParam(p, "SingleDoc", FALSE)

SingleDocMode(sd, p) == IF sd = None THEN GetParam(p, "SingleDoc", FALSE) ELSE ValueOf(sd)

\* lines 73-78: the conversion entry point for a single-document mode
ConversionEntry(mode) == IF mode THEN "convert_document" ELSE "create_document_object"

\* lines 79, 83, 85: a loader toggle, read from the parameter group when the loader is due
LoaderPrefAtEntry(p, key) == GetParam(params0, key, FALSE)

LoaderPref(p, key) == GetParam(p, key, FALSE)

\* line 81: the materials loader also needs a non-silent call
MaterialsEnabledWhenSilent(p, silent) == LoaderPref(p, "LoadMaterials")

MaterialsEnabled(p, silent) == ~silent /\ LoaderPref(p, "LoadMaterials")

\* lines 89-106: the console lines and GUI calls after the recompute
FinishCalls(gui, w) ==
    (IF gui THEN << "doCommand" >> ELSE << >>)
    \o << "print Imported" >>
    \o (IF gui /\ ValueOf(w) THEN << "postStart" >> ELSE << >>)

-----------------------------------------------------------------------------
(* open *)

\* line 43: the label of the new document
DocumentLabel(filename) == splitext_root(basename(filename))

\* line 44: the attribute open sets before anything else
FlagWhenOpeningNotSet(f) == f

FlagWhenOpening(f) == TRUE

\* lines 48-49: no frame has a try/finally, an exception leaves the attribute as it is
FlagAfterRaise(f) == f

-----------------------------------------------------------------------------
(* The state after the module is imported *)

Init ==
    /\ params \in InitParams
    /\ GuiUp \in BOOLEAN
    /\ IsOpeningIFC = FALSE
    /\ docs = << >>
    /\ top = "none"
    /\ pc = "idle"
    /\ given = DefaultArgs
    /\ strategy = None
    /\ shapemode = None
    /\ switchwb = None
    /\ singledoc = None
    /\ dlg = NoDialog
    /\ calls = << >>
    /\ result = [kind |-> "none", value |-> None]
    /\ params0 = params
    /\ flag0 = FALSE
    /\ dlgState = "none"
    /\ askOff = FALSE
    /\ ndialogs = 0

\* the host calls a function of the module: the frame's locals are the arguments;
\* insert starts with line 64, the reload of ifc_tools
Enter(fn, args) ==
    /\ pc = "idle"
    /\ ndialogs < MaxDialogs
    /\ top' = fn
    /\ given' = args
    /\ strategy' = args.strategy
    /\ shapemode' = args.shapemode
    /\ switchwb' = args.switchwb
    /\ singledoc' = args.singledoc
    /\ dlg' = NoDialog
    /\ result' = [kind |-> "none", value |-> None]
    /\ pc' = CASE fn = "open" -> "open_newdoc"
                [] fn = "get_project_type" -> "get_project_type"
                [] OTHER -> "get_options"
    /\ calls' = IF fn = "insert" THEN << "reload" >> ELSE << >>
    /\ params0' = params
    /\ flag0' = IsOpeningIFC
    /\ dlgState' = "none"
    /\ UNCHANGED << params, GuiUp, askOff, ndialogs >>

\* the running top-level call returns `value` to the host
ReturnToHost(value) ==
    /\ pc' = "idle"
    /\ result' = [kind |-> "returned", value |-> value]

\* an exception leaves every frame of the chain: nothing is returned
RaiseToHost ==
    /\ pc' = "idle"
    /\ result' = [kind |-> "raised", value |-> None]
    /\ IsOpeningIFC' = FlagAfterRaise(IsOpeningIFC)

-----------------------------------------------------------------------------
(* open, lines 40-50 *)

\* lines 43-44: the host calls open; the attribute is set first
Open(filename) ==
    /\ Len(docs) < MaxDocs
    /\ Enter("open", [DefaultArgs EXCEPT !.filename = filename, !.docname = Len(docs) + 1])
    /\ IsOpeningIFC' = FlagWhenOpening(IsOpeningIFC)
    /\ UNCHANGED docs

\* lines 45-48 and 64: the document is created and labeled, insert is entered
OpenNewDocument ==
    /\ pc = "open_newdoc"
    /\ docs' = Append(docs, DocumentLabel(given.filename))
    /\ calls' = calls \o << "newDocument", "reload" >>
    /\ pc' = "get_options"
    /\ UNCHANGED << params, GuiUp, IsOpeningIFC, top, given, strategy, shapemode, switchwb,
                    singledoc, dlg, result, params0, flag0, dlgState, askOff, ndialogs >>

\* lines 49-50: insert has returned; the attribute is deleted, the document returned
OpenReturn ==
    /\ pc = "open_del"
    /\ IsOpeningIFC' = FALSE
    /\ ReturnToHost(Some(given.docname))
    /\ UNCHANGED << params, GuiUp, docs, top, given, strategy, shapemode, switchwb,
                    singledoc, dlg, calls, params0, flag0, dlgState, askOff, ndialogs >>

-----------------------------------------------------------------------------
(* get_options, lines 109-174 *)

\* the host calls get_options
GetOptions(s, m, w, silent) ==
    /\ Enter("get_options",
             [DefaultArgs EXCEPT !.strategy = s, !.shapemode = m, !.switchwb = w,
                                 !.silent = silent])
    /\ UNCHANGED << IsOpeningIFC, docs >>

\* get_options returns `triple`: to the host, or to line 65 of insert, which
\* rebinds strategy, shapemode and switchwb
ReturnTriple(triple) ==
    /\ strategy' = triple[1]
    /\ shapemode' = triple[2]
    /\ switchwb' = triple[3]
    /\ IF top = "get_options"
       THEN ReturnToHost(triple)
       ELSE pc' = "insert_check" /\ UNCHANGED result

\* lines 122-136, 174: silent, AskAgain off or no GUI: the merged triple is returned
GetOptionsNoDialog ==
    /\ pc = "get_options"
    /\ given.silent \/ ~ShouldAsk(params, GuiUp)
    /\ ReturnTriple(<< Resolve(strategy, params, "ImportStrategy", 0),
                       Resolve(shapemode, params, "ShapeMode", 0),
                       Resolve(switchwb, params, "SwitchWB", TRUE) >>)
    /\ UNCHANGED << params, GuiUp, IsOpeningIFC, docs, top, given, singledoc, dlg, calls,
                    params0, flag0, dlgState, askOff, ndialogs >>

\* lines 122-153: the dialog is loaded, populated and run
GetOptionsShowDialog ==
    /\ pc = "get_options"
    /\ ~given.silent
    /\ ShouldAsk(params, GuiUp)
    /\ strategy' = Resolve(strategy, params, "ImportStrategy", 0)
    /\ shapemode' = Resolve(shapemode, params, "ShapeMode", 0)
    /\ switchwb' = Resolve(switchwb, params, "SwitchWB", TRUE)
    /\ dlg' = PopulatedDialog(params, strategy', shapemode', switchwb')
    /\ dlgState' = "shown"
    /\ ndialogs' = ndialogs + 1
    /\ pc' = "dialog"
    /\ UNCHANGED << params, GuiUp, IsOpeningIFC, docs, top, given, singledoc, calls,
                    result, params0, flag0, askOff >>

\* the user changes a widget of the running dialog before closing it: one widget
\* at most, any of those shown; checkSwitchWB is hidden (line 143)
UserEdits(widget, value) ==
    /\ pc = "dialog"
    /\ dlg.touched = ""
    /\ value # dlg[widget]
    /\ dlg' = [dlg EXCEPT ![widget] = value, !.touched = widget]
    /\ UNCHANGED << params, GuiUp, IsOpeningIFC, docs, top, pc, given, strategy, shapemode,
                    switchwb, singledoc, calls, result, params0, flag0, dlgState, askOff,
                    ndialogs >>

UserPicksStrategy == \E i \in 0..(NumStrategies - 1) : UserEdits("comboStrategy", i)

UserPicksShapeMode == \E i \in 0..(NumShapeModes - 1) : UserEdits("comboShapeMode", i)

UserPicksSingleDoc == \E i \in 0..1 : UserEdits("comboSingleDoc", i)

UserTicks ==
    \E widget \in {"checkAskAgain", "checkLoadOrphans", "checkLoadPsets",
                    "checkLoadMaterials", "checkLoadLayers"} :
        UserEdits(widget, ~dlg[widget])

\* lines 153-155: exec_ returns 0
DialogReject ==
    /\ pc = "dialog"
    /\ dlgState' = "cancelled"
    /\ params' = ParamsAfterReject(params, dlg)
    /\ dlg' = NoDialog
    /\ ReturnTriple(RejectedTriple(strategy, shapemode, switchwb))
    /\ UNCHANGED << GuiUp, IsOpeningIFC, docs, top, given, singledoc, calls,
                    params0, flag0, askOff, ndialogs >>

\* lines 153, 156-174: exec_ returns 1; the widgets are read back and stored
DialogAccept ==
    /\ pc = "dialog"
    /\ dlgState' = "accepted"
    /\ params' = StoreDialog(params, dlg)
    /\ askOff' = (askOff \/ ~dlg.checkAskAgain)
    /\ UNCHANGED dlg
    /\ ReturnTriple(AcceptedTriple(dlg))
    /\ UNCHANGED << GuiUp, IsOpeningIFC, docs, top, given, singledoc, calls,
                    params0, flag0, ndialogs >>

-----------------------------------------------------------------------------
(* insert, lines 53-106 *)

\* the host calls insert
Insert(s, m, w, silent, sd, docname) ==
    /\ Enter("insert",
             [DefaultArgs EXCEPT !.strategy = s, !.shapemode = m, !.switchwb = w,
                                 !.silent = silent, !.singledoc = sd, !.docname = docname])
    /\ UNCHANGED << IsOpeningIFC, docs >>

\* insert returns `value`: to the host, or to line 49 of open, which drops it
InsertReturn(value) ==
    IF top = "open"
    THEN pc' = "open_del" /\ UNCHANGED << result, IsOpeningIFC >>
    ELSE ReturnToHost(value) /\ UNCHANGED IsOpeningIFC

\* a collaborator call returns and insert goes on at `next`, or it raises
CollaboratorCall(name, next) ==
    /\ calls' = Append(calls, name)
    /\ \E ok \in BOOLEAN :
          IF ok THEN pc' = next /\ UNCHANGED << result, IsOpeningIFC >> ELSE RaiseToHost

\* lines 66-68: the abort sentinel
InsertAborted ==
    /\ pc = "insert_check"
    /\ strategy = None
    /\ calls' = Append(calls, "print Aborted.")
    /\ InsertReturn(None)
    /\ UNCHANGED << params, GuiUp, docs, top, given, strategy, shapemode, switchwb,
                    singledoc, dlg, params0, flag0, dlgState, askOff, ndialogs >>

\* lines 66, 69-78: the conversion entry point is chosen and called
InsertConvert ==
    /\ pc = "insert_check"
    /\ strategy # None
    /\ singledoc' = Some(SingleDocMode(singledoc, params))
    /\ CollaboratorCall(ConversionEntry(ValueOf(singledoc')), "load_orphans")
    /\ UNCHANGED << params, GuiUp, docs, top, given, strategy, shapemode, switchwb,
                    dlg, params0, flag0, dlgState, askOff, ndialogs >>

\* one of lines 79-86: a loader is called if it is enabled
Loader(here, enabled, name, next) ==
    /\ pc = here
    /\ IF enabled
       THEN CollaboratorCall(name, next)
       ELSE pc' = next /\ UNCHANGED << calls, result, IsOpeningIFC >>
    /\ UNCHANGED << params, GuiUp, docs, top, given, strategy, shapemode, switchwb,
                    singledoc, dlg, params0, flag0, dlgState, askOff, ndialogs >>

\* lines 79-80
InsertLoadOrphans ==
    Loader("load_orphans", LoaderPref(params, "LoadOrphans"), "load_orphans", "load_materials")

\* lines 81-82
InsertLoadMaterials ==
    Loader("load_materials", MaterialsEnabled(params, given.silent), "load_materials", "load_layers")

\* lines 83-84
InsertLoadLayers ==
    Loader("load_layers", LoaderPref(params, "LoadLayers"), "load_layers", "load_psets")

\* lines 85-86
InsertLoadPsets ==
    Loader("load_psets", LoaderPref(params, "LoadPsets"), "load_psets", "recompute")

\* lines 87-106: recompute, the console reference, the summary line, the start page
InsertFinish ==
    /\ pc = "recompute"
    /\ calls' = calls \o << "recompute" >> \o FinishCalls(GuiUp, switchwb)
    /\ InsertReturn(Some(given.docname))
    /\ UNCHANGED << params, GuiUp, docs, top, given, strategy, shapemode, switchwb,
                    singledoc, dlg, params0, flag0, dlgState, askOff, ndialogs >>

-----------------------------------------------------------------------------
(* get_project_type, lines 177-196 *)

\* line 184: the project dialog is shown iff ProjectAskAgain is on and a GUI is up
ShouldAskProject(p, gui) == GetParam(p, "ProjectAskAgain", TRUE) /\ gui

\* lines 192-195: both keys are written whatever exec_ returned
StoreProjectDialog(p, res, checked) ==
    SetParam(SetParam(p, "ProjectAskAgain", ~checked), "ProjectFull", res)

\* the host calls get_project_type
GetProjectType(silent) ==
    /\ Enter("get_project_type", [DefaultArgs EXCEPT !.silent = silent])
    /\ UNCHANGED << IsOpeningIFC, docs >>

\* lines 180-184, 196: silent, ProjectAskAgain off or no GUI: the stored type
GetProjectTypeNoDialog ==
    /\ pc = "get_project_type"
    /\ given.silent \/ ~ShouldAskProject(params, GuiUp)
    /\ ReturnToHost(Some(GetParam(params, "ProjectFull", FALSE)))
    /\ UNCHANGED << params, GuiUp, IsOpeningIFC, docs, top, given, strategy, shapemode,
                    switchwb, singledoc, dlg, calls, params0, flag0, dlgState, askOff,
                    ndialogs >>

\* lines 184-191: the project dialog is loaded and run
GetProjectTypeShowDialog ==
    /\ pc = "get_project_type"
    /\ ~given.silent
    /\ ShouldAskProject(params, GuiUp)
    /\ dlgState' = "shown"
    /\ ndialogs' = ndialogs + 1
    /\ pc' = "project_dialog"
    /\ UNCHANGED << params, GuiUp, IsOpeningIFC, docs, top, given, strategy, shapemode,
                    switchwb, singledoc, dlg, calls, result, params0, flag0, askOff >>

\* lines 191-196: exec_ returns `res` with the check box as the user left it
ProjectDialogDone ==
    /\ pc = "project_dialog"
    /\ \E res \in BOOLEAN, checked \in BOOLEAN :
          /\ dlg' = [dlg EXCEPT !.checkBox = checked]
          /\ dlgState' = IF res THEN "accepted" ELSE "cancelled"
          /\ params' = StoreProjectDialog(params, res, checked)
          /\ ReturnToHost(Some(res))
    /\ UNCHANGED << GuiUp, IsOpeningIFC, docs, top, given, strategy, shapemode, switchwb,
                    singledoc, calls, params0, flag0, askOff, ndialogs >>

-----------------------------------------------------------------------------
(* The module as a state machine *)

\* line 47: the document open created last is the active one; 0 is the document
\* the host had before any open
ActiveDocument == Len(docs)

\* the host imports into the active document or asks for options or the project type
ImportCalls ==
    \/ \E o \in InsertOverrides, silent \in BOOLEAN, sd \in SingleDocArgs :
          Insert(o[1], o[2], o[3], silent, sd, ActiveDocument)
    \/ \E s \in StrategyArgs, m \in ShapeModeArgs, w \in SwitchWBArgs, silent \in BOOLEAN :
          GetOptions(s, m, w, silent)
    \/ \E silent \in BOOLEAN : GetProjectType(silent)

\* the host opens a file
OpenCalls == \E f \in Filenames : Open(f)

\* the steps of get_options, insert and get_project_type
ImportSteps ==
    \/ GetOptionsNoDialog
    \/ GetOptionsShowDialog
    \/ DialogReject
    \/ DialogAccept
    \/ InsertAborted
    \/ InsertConvert
    \/ InsertLoadOrphans
    \/ InsertLoadMaterials
    \/ InsertLoadLayers
    \/ InsertLoadPsets
    \/ InsertFinish
    \/ GetProjectTypeNoDialog
    \/ GetProjectTypeShowDialog
    \/ ProjectDialogDone

\* the steps of open around its call of insert
OpenSteps ==
    \/ OpenNewDocument
    \/ OpenReturn

\* what the user does to the options dialog before closing it
UserSteps ==
    \/ UserPicksStrategy
    \/ UserPicksShapeMode
    \/ UserPicksSingleDoc
    \/ UserTicks

\* the whole module with its host and its user
Next == ImportCalls \/ OpenCalls \/ ImportSteps \/ OpenSteps \/ UserSteps

Spec == Init /\ [][Next]_vars

\* the import functions called directly, the user free to change the dialog
NextImport == ImportCalls \/ ImportSteps \/ UserSteps

SpecImport == Init /\ [][NextImport]_vars

\* every function of the module, the user closing each dialog as it comes up
NextOpen == ImportCalls \/ OpenCalls \/ ImportSteps \/ OpenSteps

SpecOpen == Init /\ [][NextOpen]_vars

-----------------------------------------------------------------------------
(* Vocabulary of the properties *)

ConversionNames == {"convert_document", "create_document_object"}
LoaderOrder == << "load_orphans", "load_materials", "load_layers", "load_psets" >>
LoaderNames == {LoaderOrder[i] : i \in 1..Len(LoaderOrder)}

\* the running or last top-level call runs insert
RunsInsert == top \in {"insert", "open"}
\* the running or last top-level call runs get_options
RunsGetOptions == top \in {"insert", "open", "get_options"}
\* the top-level call `fn` has ended
Ended(fn) == top = fn /\ pc = "idle"
Returned(fn) == Ended(fn) /\ result.kind = "returned"
Raised(fn) == Ended(fn) /\ result.kind = "raised"

\* insert is past its dispatch (line 78) in a call it did not abort
PastDispatch ==
    /\ RunsInsert
    /\ pc \in {"load_orphans", "load_materials", "load_layers", "load_psets", "recompute",
               "open_del", "idle"}
    /\ strategy # None

\* how many loader lines (79-86) insert has passed without an exception
LoaderStage ==
    CASE pc = "load_orphans" -> 0
      [] pc = "load_materials" -> 1
      [] pc = "load_layers" -> 2
      [] pc = "load_psets" -> 3
      [] OTHER -> 4

Count(seq, names) == Cardinality({i \in 1..Len(seq) : seq[i] \in names})
Only(seq, names) == SelectSeq(seq, LAMBDA c : c \in names)
IsPrefix(a, b) == Len(a) <= Len(b) /\ a = SubSeq(b, 1, Len(a))

\* the loaders of LoaderOrder[1..n] that `on` enables, in order
LoadersDue(n, on(_)) == SelectSeq(SubSeq(LoaderOrder, 1, n), on)

\* the conversion and loader calls of the call are `entry` followed by the
\* loaders `on` enables, as far as insert got: all those of the lines passed, or,
\* when a collaborator raised, the enabled ones up to the one that raised
ConversionThenLoaders(entry, on(_)) ==
    LET made == Only(calls, ConversionNames \cup LoaderNames)
    IN IF pc = "idle" /\ result.kind = "raised"
       THEN /\ made # << >>
            /\ IsPrefix(made, << entry >> \o LoadersDue(4, on))
            /\ calls[Len(calls)] = made[Len(made)]
       ELSE made = << entry >> \o LoadersDue(LoaderStage, on)

\* the stored value of a key, or the default the code reads it with
Stored(p, key) ==
    IF key \in DOMAIN p THEN p[key]
    ELSE CASE key \in {"ImportStrategy", "ShapeMode"} -> 0
           [] key \in {"SwitchWB", "AskAgain", "ProjectAskAgain"} -> TRUE
           [] OTHER -> FALSE

\* the triple of the given overrides, each None replaced by the stored value
MergedTriple(p) ==
    << IF given.strategy = None THEN Some(Stored(p, "ImportStrategy")) ELSE given.strategy,
       IF given.shapemode = None THEN Some(Stored(p, "ShapeMode")) ELSE given.shapemode,
       IF given.switchwb = None THEN Some(Stored(p, "SwitchWB")) ELSE given.switchwb >>

OptionKeys ==
    {"ImportStrategy", "ShapeMode", "SwitchWB", "AskAgain", "LoadOrphans", "LoadPsets",
     "LoadMaterials", "LoadLayers", "SingleDoc"}
ProjectKeys == {"ProjectAskAgain", "ProjectFull"}

\* the keys of `keys` are set or unset alike in p and q, with the same values
SameOn(keys, p, q) ==
    \A k \in keys : (k \in DOMAIN p <=> k \in DOMAIN q) /\ (k \in DOMAIN p => p[k] = q[k])

-----------------------------------------------------------------------------
(* C1 *)

\* C1: a rejected options dialog makes get_options return (None, None, None);
\* insert, receiving it, prints "Aborted." and returns None with no conversion
\* call, no loader call, no recompute and no write to the parameter group.
C1_CancelAborts ==
    (RunsGetOptions /\ dlgState = "cancelled") =>
        /\ params = params0
        /\ << strategy, shapemode, switchwb >> = << None, None, None >>
        /\ result.kind # "raised"
        /\ Returned("get_options") => result.value = << None, None, None >>
        /\ RunsInsert =>
              /\ pc \in {"insert_check", "open_del", "idle"}
              /\ Count(calls, ConversionNames \cup LoaderNames \cup {"recompute"}) = 0
              /\ pc # "insert_check" => calls[Len(calls)] = "print Aborted."
              /\ Ended("insert") => result = [kind |-> "returned", value |-> None]

C1_Witness ==
    /\ Returned("insert")
    /\ dlgState = "cancelled"
    /\ calls = << "reload", "print Aborted." >>

-----------------------------------------------------------------------------
(* C2 *)

\* C2: get_options with silent=True returns the given overrides, each None
\* replaced by the stored value, shows no dialog and writes no key, for every
\* combination of overrides and every content of the parameter group.
C2_SilentMerge ==
    (top = "get_options" /\ given.silent /\ pc # "get_options") =>
        /\ pc = "idle"
        /\ result = [kind |-> "returned", value |-> MergedTriple(params0)]
        /\ dlgState = "none"
        /\ params = params0

C2_Witness ==
    /\ Returned("get_options")
    /\ given.silent
    /\ given.strategy # None
    /\ given.shapemode = None
    /\ "ShapeMode" \in DOMAIN params /\ params["ShapeMode"] # 0
    /\ result.value[1] = given.strategy
    /\ result.value[2] = Some(params["ShapeMode"])

-----------------------------------------------------------------------------
(* C3 *)

\* C3: an accepted options dialog stores all nine keys with the values the
\* dialog shows at acceptance (SingleDoc as bool(1 - index)) and get_options
\* returns the strategy, shape mode and switchwb shown; a SingleDoc combo the
\* user did not touch is stored back with the value the preference had.
C3_AcceptPersists ==
    (RunsGetOptions /\ dlgState = "accepted") =>
        /\ OptionKeys \subseteq DOMAIN params
        /\ params["ImportStrategy"] = dlg.comboStrategy
        /\ params["ShapeMode"] = dlg.comboShapeMode
        /\ params["SwitchWB"] = dlg.checkSwitchWB
        /\ params["AskAgain"] = dlg.checkAskAgain
        /\ params["LoadOrphans"] = dlg.checkLoadOrphans
        /\ params["LoadPsets"] = dlg.checkLoadPsets
        /\ params["LoadMaterials"] = dlg.checkLoadMaterials
        /\ params["LoadLayers"] = dlg.checkLoadLayers
        /\ params["SingleDoc"] = ((1 - dlg.comboSingleDoc) # 0)
        /\ dlg.touched # "comboSingleDoc" => params["SingleDoc"] = Stored(params0, "SingleDoc")
        /\ SameOn(ProjectKeys, params, params0)
        /\ << strategy, shapemode, switchwb >> =
              << Some(dlg.comboStrategy), Some(dlg.comboShapeMode), Some(dlg.checkSwitchWB) >>
        /\ top = "get_options" =>
              /\ pc = "idle"
              /\ result = [kind |-> "returned",
                           value |-> << Some(dlg.comboStrategy), Some(dlg.comboShapeMode),
                                        Some(dlg.checkSwitchWB) >>]

C3_Witness ==
    /\ Returned("get_options")
    /\ dlgState = "accepted"
    /\ dlg.touched = "comboStrategy"
    /\ Stored(params0, "SingleDoc")
    /\ params["SingleDoc"]
    /\ params # params0

-----------------------------------------------------------------------------
(* C4 *)

\* C4: in every insert call that is not aborted, single-document mode is the
\* singledoc argument if it is given and the SingleDoc preference otherwise;
\* in that mode convert_document is called exactly once and
\* create_document_object never, and the other way round when the mode is off.
C4_OneConversion ==
    /\ PastDispatch =>
          LET mode == IF given.singledoc # None THEN given.singledoc[1]
                      ELSE Stored(params, "SingleDoc")
              entry == IF mode THEN "convert_document" ELSE "create_document_object"
          IN /\ singledoc = Some(mode)
             /\ Count(calls, {entry}) = 1
             /\ Count(calls, ConversionNames \ {entry}) = 0
    /\ ~PastDispatch => Count(calls, ConversionNames) = 0

C4_Witness ==
    /\ Returned("insert")
    /\ given.singledoc = Some(FALSE)
    /\ Stored(params, "SingleDoc")
    /\ Count(calls, {"create_document_object"}) = 1
    /\ Count(calls, {"convert_document"}) = 0

-----------------------------------------------------------------------------
(* C5 *)

\* C5: in every insert call that is not aborted the loaders run after the
\* conversion call in the order orphans, materials, layers, psets; a loader
\* is skipped iff its preference is false, the materials loader also iff the
\* call is silent.  A collaborator that raises ends the call: the loaders
\* called so far are then the enabled ones up to the one that raised.
C5_LoaderOrder ==
    PastDispatch =>
        LET on(name) ==
                CASE name = "load_orphans" -> Stored(params, "LoadOrphans")
                  [] name = "load_materials" -> Stored(params, "LoadMaterials") /\ ~given.silent
                  [] name = "load_layers" -> Stored(params, "LoadLayers")
                  [] name = "load_psets" -> Stored(params, "LoadPsets")
        IN \E entry \in ConversionNames : ConversionThenLoaders(entry, on)

C5_Witness ==
    /\ Returned("insert")
    /\ given.silent
    /\ Stored(params, "LoadMaterials")
    /\ Only(calls, LoaderNames) = << "load_orphans", "load_layers", "load_psets" >>

-----------------------------------------------------------------------------
(* C6 *)

\* the part of a file name after its last separator
BaseOf(filename) ==
    LET cut == CHOOSE i \in 0..Len(filename) :
                   /\ i > 0 => filename[i] = "/"
                   /\ \A j \in (i + 1)..Len(filename) : filename[j] # "/"
    IN SubSeq(filename, cut + 1, Len(filename))

\* ext is an extension of the base name stem \o ext: a dot followed by no
\* further dot, after a stem that is not made of dots only
IsExtension(stem, ext) ==
    /\ ext # << >>
    /\ ext[1] = "."
    /\ \A i \in 2..Len(ext) : ext[i] # "."
    /\ \E i \in 1..Len(stem) : stem[i] # "."

\* label is the base name of filename without its extension, if it has one
IsBaseWithoutExtension(label, filename) ==
    LET base == BaseOf(filename)
        splits == {n \in 0..Len(base) :
                      IsExtension(SubSeq(base, 1, n), SubSeq(base, n + 1, Len(base)))}
    IN IF splits = {} THEN label = base
       ELSE \E n \in splits : label = SubSeq(base, 1, n)

ModelIfc ==
    << "/", "p", "a", "t", "h", "/", "t", "o", "/", "M", "o", "d", "e", "l", ".", "i", "f", "c" >>

\* C6 as stated: open creates a document labeled with the base file name
\* without its extension and returns that document whatever the outcome of
\* the import, a failing conversion collaborator included.
C6_OpenAlwaysReturnsDocument ==
    Ended("open") =>
        /\ Len(docs) = given.docname
        /\ IsBaseWithoutExtension(docs[given.docname], given.filename)
        /\ result = [kind |-> "returned", value |-> Some(given.docname)]

\* C6 as amended: open creates a document labeled with the base file name
\* without its extension; it returns that document when insert completes or
\* is aborted by a rejected dialog; when a collaborator raises inside insert
\* the exception leaves open, which returns nothing, the labeled document
\* staying created.
C6_OpenReturnsUnlessRaised ==
    /\ (top = "open" /\ pc = "open_newdoc") => Len(docs) = given.docname - 1
    /\ (top = "open" /\ pc # "open_newdoc") =>
          /\ Len(docs) = given.docname
          /\ IsBaseWithoutExtension(docs[given.docname], given.filename)
          /\ given.filename = ModelIfc => docs[given.docname] = << "M", "o", "d", "e", "l" >>
    /\ Ended("open") =>
          /\ result.kind \in {"returned", "raised"}
          /\ result.kind = "returned" => result.value = Some(given.docname)
          /\ dlgState = "cancelled" => result.kind = "returned"
          /\ "print Imported" \in {calls[i] : i \in 1..Len(calls)} => result.kind = "returned"
          /\ result.kind = "raised" =>
                /\ result.value = None
                /\ calls[Len(calls)] \in ConversionNames \cup LoaderNames

C6_Witness ==
    /\ Raised("open")
    /\ given.filename = ModelIfc
    /\ docs[Len(docs)] = << "M", "o", "d", "e", "l" >>
    /\ calls[Len(calls)] \in ConversionNames

-----------------------------------------------------------------------------
(* C7 *)

\* C7 as stated: no key of the parameter group changes value during a call
\* in which no dialog was shown or in which the dialog was cancelled.
C7_WrittenOnlyOnAccept ==
    dlgState # "accepted" =>
        \A k \in OptionKeys \cup ProjectKeys : Stored(params, k) = Stored(params0, k)

\* C7 as amended: no key changes during a call in which no dialog was shown
\* or in which the options dialog was cancelled; the project dialog of
\* get_project_type writes ProjectAskAgain and ProjectFull when it is closed,
\* accepted or cancelled, and no other key; the options dialog writes no
\* project key.
C7_WrittenOnlyByClosedDialogs ==
    /\ (dlgState \in {"none", "shown"}) => params = params0
    /\ (dlgState = "cancelled" /\ top # "get_project_type") => params = params0
    /\ top = "get_project_type" => SameOn(OptionKeys, params, params0)
    /\ top # "get_project_type" => SameOn(ProjectKeys, params, params0)
    /\ (top = "get_project_type" /\ dlgState \in {"accepted", "cancelled"}) =>
          /\ ProjectKeys \subseteq DOMAIN params
          /\ params["ProjectFull"] = (dlgState = "accepted")
          /\ params["ProjectAskAgain"] = ~dlg.checkBox

C7_Witness ==
    /\ Returned("get_project_type")
    /\ dlgState = "cancelled"
    /\ dlg.checkBox
    /\ Stored(params0, "ProjectAskAgain")
    /\ ~params["ProjectAskAgain"]

-----------------------------------------------------------------------------
(* C8 *)

\* C8: open sets IsOpeningIFC before it creates the document and before it
\* calls insert; the attribute stays set through every collaborator call of
\* that insert and is removed after insert returns, aborted or not; if a
\* collaborator raises inside insert it is not removed and is still set when
\* open has ended; insert called directly neither sets nor removes it.
C8_OpeningFlag ==
    /\ (top = "open" /\ pc # "idle") => IsOpeningIFC
    /\ (top = "open" /\ pc = "open_newdoc") => Len(docs) < given.docname /\ calls = << >>
    /\ Returned("open") => ~IsOpeningIFC
    /\ Raised("open") => IsOpeningIFC
    /\ top # "open" => IsOpeningIFC = flag0

C8_Witness ==
    /\ Raised("open")
    /\ IsOpeningIFC
    /\ ~flag0
    /\ calls[Len(calls)] \in LoaderNames

-----------------------------------------------------------------------------
(* C9 *)

\* the running or last call started after a dialog acceptance had stored
\* AskAgain = False, which nothing has set back since
StartedWithAskAgainOff == askOff /\ ~Stored(params0, "AskAgain")

\* C9: once a dialog acceptance has stored AskAgain = False, every later
\* get_options and insert call with silent=False shows no dialog, writes no
\* key, never yields the abort sentinel and resolves the triple the silent
\* path returns: the overrides merged with the stored values.
C9_NoDialogOnceAskAgainOff ==
    /\ askOff => ("AskAgain" \in DOMAIN params /\ ~params["AskAgain"])
    /\ (StartedWithAskAgainOff /\ RunsGetOptions /\ ~given.silent) =>
          /\ dlgState = "none"
          /\ params = params0
          /\ ~(\E i \in 1..Len(calls) : calls[i] = "print Aborted.")
          /\ pc \notin {"dialog", "open_newdoc", "get_options"} =>
                << strategy, shapemode, switchwb >> = MergedTriple(params0)
          /\ Ended("get_options") =>
                result = [kind |-> "returned", value |-> MergedTriple(params0)]
          /\ Ended("insert") => result.value # None \/ result.kind = "raised"

C9_Witness ==
    /\ Returned("insert")
    /\ StartedWithAskAgainOff
    /\ ~given.silent
    /\ GuiUp
    /\ given.strategy = None
    /\ strategy = Some(params["ImportStrategy"])

-----------------------------------------------------------------------------
(* C10 *)

\* C10: when the options dialog is shown and accepted in a non-silent insert
\* call, the values accepted govern that same call: the four loader check
\* boxes as accepted decide which loaders run, and the single-document combo
\* as accepted decides the conversion entry point unless the singledoc
\* argument is given, which then decides it even against the stored value.
C10_AcceptedValuesGovern ==
    (PastDispatch /\ dlgState = "accepted") =>
        LET on(name) ==
                CASE name = "load_orphans" -> dlg.checkLoadOrphans
                  [] name = "load_materials" -> dlg.checkLoadMaterials
                  [] name = "load_layers" -> dlg.checkLoadLayers
                  [] name = "load_psets" -> dlg.checkLoadPsets
            single == IF given.singledoc # None THEN given.singledoc[1]
                      ELSE dlg.comboSingleDoc = 0
        IN /\ ~given.silent
           /\ ConversionThenLoaders(
                  IF single THEN "convert_document" ELSE "create_document_object", on)

C10_Witness ==
    /\ Returned("insert")
    /\ dlgState = "accepted"
    /\ dlg.touched = "checkLoadOrphans"
    /\ dlg.checkLoadOrphans
    /\ ~Stored(params0, "LoadOrphans")
    /\ given.singledoc = Some(TRUE)
    /\ ~params["SingleDoc"]
    /\ Only(calls, ConversionNames \cup LoaderNames) = << "convert_document", "load_orphans" >>

====
